---- MODULE Spec2Model ----
(***************************************************************************)
(* A model of payvo_sdk/client.py: the Payvo client, its scoped session,   *)
(* its five network operations and the static webhook check.               *)
(*                                                                         *)
(* Representation of Python values                                         *)
(*   None / JSON null      the string None (no other string equals it)     *)
(*   a dict                a function on strings; the empty dict is <<>>   *)
(*   an optional argument  left at its default None: the key is absent     *)
(*                         from the argument record (items, extra), or the *)
(*                         value is None (strings)                         *)
(*   a float amount        the integer m stands for the float nearest to   *)
(*                         m/1000 (major currency units, in thousandths)   *)
(*   an HTTP session       its number 1..Len(sessions); 0 is None          *)
(***************************************************************************)
EXTENDS Integers, Sequences, FiniteSets, TLC

VARIABLES
    session,    \* self.session: 0 (None) or the number of the session object
    sessions,   \* every aiohttp.ClientSession created so far: "open" / "closed"
    depth,      \* async-with scopes entered and not yet exited
    pc,         \* position of the caller's current call
    op,         \* the operation the caller invoked
    args,       \* its arguments
    requests,   \* HTTP requests the call has issued on the session, in order
    response,   \* what the transport delivered for the request, if anything
    log,        \* records the call has emitted on the PayvoSDK logger
    result,     \* <<v>> once the call has returned v
    exc         \* <<e>> once the call has raised e

vars == <<session, sessions, depth, pc, op, args, requests, response, log, result, exc>>

None == "None"

PRODUCTION_URL == "https://api.payvo.ru/public/"

\* Sessions one client instance creates during a run.
MaxSessions == 2

(***************************************************************************)
(* Input domains.                                                          *)
(***************************************************************************)
\* 0.0, 0.07, 19.99, 100.0 (two fractional digits or fewer) and 0.125
Amounts == {0, 70, 19990, 100000, 125}

TwoDigits(m) == m % 10 = 0

OptStrings(s) == {None, "", s}

Item1 == [description |-> "Item 1", amount |-> 100000, vat_code |-> 1, quantity |-> 1]
Item2 == [description |-> "Item 2", amount |-> 19990, vat_code |-> 2, quantity |-> 3]
ItemLists == {<<>>, <<Item1>>, <<Item2, Item1>>}

Extras ==
    { <<>>,
      [amount |-> 5],
      [description |-> "override"],
      [receipt |-> [customer |-> [email |-> "x@y.z"], items |-> <<>>]],
      [confirmation |-> [type |-> "embedded", return_url |-> "https://other"],
       payment_method_type |-> "sbp"] }

PaymentArgSet ==
    { b @@ i @@ e :
        b \in [amount : Amounts, description : {"sub"},
               return_url : OptStrings("https://shop/ok"),
               email : OptStrings("a@b.c"),
               payment_method_type : {None, "card"}],
        i \in {<<>>} \cup {[items |-> l] : l \in ItemLists},
        e \in {<<>>} \cup {[extra |-> x] : x \in Extras} }

RefundArgSet ==
    [payment_uuid : {"abc"}, amount : Amounts, description : {None, "dup"}]

AutopaymentArgSet ==
    [customer_id : {"cust1"}, amount : Amounts, description : {"sub"},
     save_payment_method : BOOLEAN]

Uuids == {"p1", "p2"}

Statuses == {200, 399, 400, 404}

BodyTexts == {"{\"error\":\"not_found\"}", "{\"uuid\":\"p1\"}", "<html>"}

Payloads ==
    { <<>>, [secret_key |-> "s1"], [secret_key |-> None], [event |-> "paid"],
      [event |-> "paid", secret_key |-> "s2"] }

SecretKeys == {"s1", "s2", None}

(***************************************************************************)
(* Python semantics the handlers rely on.                                  *)
(***************************************************************************)
\* bool(s) of an Optional[str]
Truthy(s) == s # None /\ s # ""

\* dict.get(k): the value, or None when the key is absent
DictGet(d, k) == IF k \in DOMAIN d THEN d[k] ELSE None

\* d.update(e): every key of e is written over d
DictUpdateFirstWins(d, e) ==
    [k \in DOMAIN d \cup DOMAIN e |-> IF k \in DOMAIN d THEN d[k] ELSE e[k]]
DictUpdate(d, e) ==
    [k \in DOMAIN d \cup DOMAIN e |-> IF k \in DOMAIN e THEN e[k] ELSE d[k]]

\* The IEEE-754 double product amount * 100, in hundredths of a minor unit.
\* The exact product of m/1000 and 100 is m*10 hundredths; the double that
\* Python computes lies just below, on, or just above it:
\*   0.07 * 100 = 7.000000000000001     19.99 * 100 = 1998.9999999999998
\*   0.0, 100.0, 0.125 (12.5) are exact.
FloatErr(m) ==
    CASE m = 70 -> 1
      [] m = 19990 -> -1
      [] OTHER -> 0
FloatMul100(m) == m * 10 + FloatErr(m)

\* round(x): to the nearest integer, ties to the even one
PyRound(p) ==
    LET q == p \div 100
        r == p % 100
    IN  IF r < 50 THEN q
        ELSE IF r > 50 THEN q + 1
        ELSE IF q % 2 = 0 THEN q ELSE q + 1

\* int(x) of a non-negative float: truncation
PyInt(p) == p \div 100

\* int(round(amount * 100))
MinorUnitsTruncated(m) == PyInt(FloatMul100(m))
MinorUnits(m) == PyRound(FloatMul100(m))

(***************************************************************************)
(* Exceptions, log records, responses.                                     *)
(***************************************************************************)
\* An exception: its class, and for aiohttp.ClientResponseError the status and
\* message attributes (raise_for_status passes status and the reason phrase).
Exception(type, status, message) ==
    [type |-> type, status |-> status, message |-> message]

ValueErr == Exception("ValueError", 0, "return_url required")
AttributeErr == Exception("AttributeError", 0, "'NoneType' object has no attribute")
SessionClosedErr == Exception("RuntimeError", 0, "Session is closed")
ConnectionErr == Exception("ClientConnectionError", 0, "Cannot connect to host")
JSONDecodeErr == Exception("JSONDecodeError", 0, "Expecting value")

\* The error taxonomy of the interface, by exception class.
ErrorKind(e) ==
    CASE e.type = "ValueError" -> "InvalidArgument"
      [] e.type = "ClientResponseError" -> "HttpError"
      [] e.type \in {"ClientConnectionError", "JSONDecodeError", "RuntimeError"} -> "TransportError"
      [] OTHER -> "NullSessionFault"

LogRecord(level, layer, status, text) ==
    [level |-> level, layer |-> layer, status |-> status, text |-> text]

Reason(status) ==
    CASE status = 200 -> "OK"
      [] status = 400 -> "Bad Request"
      [] status = 404 -> "Not Found"
      [] OTHER -> ""

Responses ==
    { [kind |-> "response", status |-> st, reason |-> Reason(st), text |-> t] :
        st \in Statuses, t \in BodyTexts }

TransportFailure == [kind |-> "failure", status |-> 0, reason |-> "", text |-> ""]

\* resp.json(): <<v>> when the body text decodes to v, <<>> when it does not
JsonDecode(text) ==
    CASE text = "{\"error\":\"not_found\"}" -> <<[error |-> "not_found"]>>
      [] text = "{\"uuid\":\"p1\"}" -> <<[uuid |-> "p1"]>>
      [] OTHER -> <<>>

\* resp.status >= 400
IsErrorStatusAbove(status) == status > 400
IsErrorStatus(status) == status >= 400

\* resp.raise_for_status()
RaiseForStatus(resp) == Exception("ClientResponseError", resp.status, resp.reason)

(***************************************************************************)
(* create_payment: the request body.                                       *)
(***************************************************************************)
\* if not return_url
ReturnUrlIsNone(a) == a.return_url = None
ReturnUrlMissing(a) == ~Truthy(a.return_url)

\* data[k] = v
DictSet(d, k, v) == [x \in DOMAIN d \cup {k} |-> IF x = k THEN v ELSE d[x]]

\* one element of receipt_items
ReceiptItemUnscaled(item) ==
    [description |-> item.description, amount |-> item.amount,
     vat_code |-> item.vat_code, quantity |-> item.quantity]
ReceiptItem(item) ==
    [description |-> item.description, amount |-> MinorUnits(item.amount),
     vat_code |-> item.vat_code, quantity |-> item.quantity]

\* if email and items
HasReceipt(a) == Truthy(a.email) /\ "items" \in DOMAIN a /\ Len(a.items) > 0

Receipt(a) ==
    [customer |-> [email |-> a.email],
     items |-> [i \in 1..Len(a.items) |-> ReceiptItem(a.items[i])]]

\* if extra
HasExtra(a) == "extra" \in DOMAIN a /\ DOMAIN a.extra # {}

PaymentData(a) ==
    LET d0 == [amount |-> MinorUnits(a.amount),
               description |-> a.description,
               confirmation |-> [type |-> "redirect", return_url |-> a.return_url]]
        d1 == IF Truthy(a.payment_method_type)
              THEN DictSet(d0, "payment_method_type", a.payment_method_type)
              ELSE d0
        d2 == IF HasReceipt(a) THEN DictSet(d1, "receipt", Receipt(a)) ELSE d1
    IN  IF HasExtra(a) THEN DictUpdate(d2, a.extra) ELSE d2

\* create_refund: the request body
RefundDataScaled(a) ==
    [payment_uuid |-> a.payment_uuid, amount |-> MinorUnits(a.amount),
     description |-> a.description]
RefundData(a) ==
    [payment_uuid |-> a.payment_uuid, amount |-> a.amount,
     description |-> a.description]

\* create_autopayment: the arguments it passes to create_payment
AutopaymentPaymentArgs(c) ==
    [amount |-> c.amount, description |-> c.description,
     return_url |-> "https://example.com/return",
     email |-> None, payment_method_type |-> None,
     extra |-> [merchant_customer_id |-> c.customer_id,
                save_payment_method |-> c.save_payment_method]]

(***************************************************************************)
(* The handlers' control flow.  A handler's outcome is a record of the     *)
(* call's next position, its requests, its log, and what it returned or    *)
(* raised.                                                                 *)
(***************************************************************************)
Outcome(p, reqs, lg, res, e) ==
    [pc |-> p, requests |-> reqs, log |-> lg, result |-> res, exc |-> e]

\* except Exception as e: logger.error(..., str(e)); raise
ExceptClauseRetry(layer, e, reqs, lg) ==
    Outcome("awaiting", reqs \o reqs,
            Append(lg, LogRecord("error", layer, 0, e.message)), <<>>, <<>>)
ExceptClause(layer, e, reqs, lg) ==
    Outcome("raised", reqs,
            Append(lg, LogRecord("error", layer, 0, e.message)), <<>>, <<e>>)

\* self.session.post(...) / self.session.get(...), inside the try block
SendRequest(layer, req, lg) ==
    IF session = 0 THEN ExceptClause(layer, AttributeErr, <<>>, lg)
    ELSE IF sessions[session] = "closed"
         THEN ExceptClause(layer, SessionClosedErr, <<>>, lg)
         ELSE Outcome("awaiting", <<req>>, lg, <<>>, <<>>)

\* the body of "async with ... as resp", once the response has arrived
HandleResponse(layer, resp, reqs, lg) ==
    IF resp.kind = "failure" THEN ExceptClause(layer, ConnectionErr, reqs, lg)
    ELSE IF IsErrorStatus(resp.status)
         THEN ExceptClause(layer, RaiseForStatus(resp), reqs,
                           Append(lg, LogRecord("error", layer, resp.status, resp.text)))
         ELSE IF JsonDecode(resp.text) = <<>>
              THEN ExceptClause(layer, JSONDecodeErr, reqs, lg)
              ELSE Outcome("returned", reqs,
                           Append(lg, LogRecord("info", layer, 0, resp.text)),
                           JsonDecode(resp.text), <<>>)

\* create_payment, up to the point where it awaits the response
CreatePaymentBody(a, lg) ==
    IF ReturnUrlMissing(a)
    THEN Outcome("raised", <<>>, lg, <<>>, <<ValueErr>>)
    ELSE SendRequest("create_payment",
                     [method |-> "POST", url |-> <<PRODUCTION_URL, "payments">>,
                      body |-> PaymentData(a)],
                     Append(lg, LogRecord("debug", "create_payment", 0, "")))

\* create_autopayment's except clause around its call of create_payment
AutopaymentExcept(o) ==
    IF o.pc = "raised"
    THEN [o EXCEPT !.log = Append(@, LogRecord("error", "create_autopayment", 0,
                                               o.exc[1].message))]
    ELSE o

\* the handler that issued the request of the call in progress
Layer == IF op = "create_autopayment" THEN "create_payment" ELSE op

\* the arguments create_payment runs with in the call in progress
PaymentArgs == IF op = "create_autopayment" THEN AutopaymentPaymentArgs(args) ELSE args

Begin(o, a, out) ==
    /\ op' = o
    /\ args' = a
    /\ response' = <<>>
    /\ pc' = out.pc
    /\ requests' = out.requests
    /\ log' = out.log
    /\ result' = out.result
    /\ exc' = out.exc
    /\ UNCHANGED <<session, sessions, depth>>

(***************************************************************************)
(* Actions.                                                                *)
(***************************************************************************)
Init ==
    /\ session = 0
    /\ sessions = <<>>
    /\ depth = 0
    /\ pc = "idle"
    /\ op = "none"
    /\ args = <<>>
    /\ requests = <<>>
    /\ response = <<>>
    /\ log = <<>>
    /\ result = <<>>
    /\ exc = <<>>

\* __aenter__
Enter ==
    /\ Len(sessions) < MaxSessions
    /\ sessions' = Append(sessions, "open")
    /\ session' = Len(sessions) + 1
    /\ depth' = depth + 1
    /\ UNCHANGED <<pc, op, args, requests, response, log, result, exc>>

\* __aexit__
Exit ==
    /\ depth > 0
    /\ sessions' = IF session # 0 THEN [sessions EXCEPT ![session] = "closed"]
                   ELSE sessions
    /\ depth' = depth - 1
    /\ UNCHANGED <<session, pc, op, args, requests, response, log, result, exc>>

CreatePayment ==
    /\ pc = "idle"
    /\ \E a \in PaymentArgSet :
        Begin("create_payment", a, CreatePaymentBody(a, <<>>))

GetPayment ==
    /\ pc = "idle"
    /\ \E u \in Uuids :
        Begin("get_payment", [payment_uuid |-> u],
              SendRequest("get_payment",
                          [method |-> "GET", url |-> <<PRODUCTION_URL, "payments/", u>>],
                          <<LogRecord("debug", "get_payment", 0, "")>>))

CreateRefund ==
    /\ pc = "idle"
    /\ \E a \in RefundArgSet :
        Begin("create_refund", a,
              SendRequest("create_refund",
                          [method |-> "POST", url |-> <<PRODUCTION_URL, "refunds">>,
                           body |-> RefundData(a)],
                          <<LogRecord("debug", "create_refund", 0, "")>>))

GetRefund ==
    /\ pc = "idle"
    /\ \E u \in Uuids :
        Begin("get_refund", [refund_uuid |-> u],
              SendRequest("get_refund",
                          [method |-> "GET", url |-> <<PRODUCTION_URL, "refunds/", u>>],
                          <<LogRecord("debug", "get_refund", 0, "")>>))

CreateAutopayment ==
    /\ pc = "idle"
    /\ \E c \in AutopaymentArgSet :
        Begin("create_autopayment", c,
              AutopaymentExcept(
                  CreatePaymentBody(AutopaymentPaymentArgs(c),
                                    <<LogRecord("debug", "create_autopayment", 0, "")>>)))

VerifyWebhook ==
    /\ pc = "idle"
    /\ \E data \in Payloads, secret_key \in SecretKeys :
        Begin("verify_webhook", [data |-> data, secret_key |-> secret_key],
              Outcome("returned", <<>>, <<>>,
                      <<DictGet(data, "secret_key") = secret_key>>, <<>>))

\* The transport completes the awaited request (a response, or a failure), and
\* the handler runs to its end.
Complete ==
    /\ pc = "awaiting"
    /\ \E resp \in Responses \cup {TransportFailure} :
        LET h == HandleResponse(Layer, resp, requests, log)
            out == IF op = "create_autopayment" THEN AutopaymentExcept(h) ELSE h
        IN  /\ response' = <<resp>>
            /\ pc' = out.pc
            /\ requests' = out.requests
            /\ log' = out.log
            /\ result' = out.result
            /\ exc' = out.exc
    /\ UNCHANGED <<session, sessions, depth, op, args>>

\* The caller takes the value or the exception; the call is over.
Finish ==
    /\ pc \in {"returned", "raised"}
    /\ pc' = "idle"
    /\ op' = "none"
    /\ args' = <<>>
    /\ requests' = <<>>
    /\ response' = <<>>
    /\ log' = <<>>
    /\ result' = <<>>
    /\ exc' = <<>>
    /\ UNCHANGED <<session, sessions, depth>>

Next ==
    \/ Enter
    \/ Exit
    \/ CreatePayment
    \/ GetPayment
    \/ CreateRefund
    \/ GetRefund
    \/ CreateAutopayment
    \/ VerifyWebhook
    \/ Complete
    \/ Finish

Spec == Init /\ [][Next]_vars

(***************************************************************************)
(* Claims.  In the formulas below a call "has issued its request" when     *)
(* requests # <<>>; requests[1].body is then the JSON body that went out.  *)
(***************************************************************************)

\* C1 (as stated): for every create_payment call whose amount has at most two
\* fractional digits, whatever extra holds, the outgoing body's amount is the
\* integer round(amount * 100): the amount in minor units, scaled exactly once.
C1_AmountScaledOnce_AnyExtra ==
    (op \in {"create_payment", "create_autopayment"} /\ requests # <<>>
        /\ TwoDigits(PaymentArgs.amount))
    => requests[1].body.amount * 10 = PaymentArgs.amount

\* C1 (amended): the same, for calls whose extra has no "amount" key; with that
\* key, the outgoing amount is extra's value, untouched.
C1_AmountScaledOnce ==
    (op \in {"create_payment", "create_autopayment"} /\ requests # <<>>
        /\ TwoDigits(PaymentArgs.amount))
    => LET a == PaymentArgs
           body == requests[1].body
       IN  IF "extra" \in DOMAIN a /\ "amount" \in DOMAIN a.extra
           THEN body.amount = a.extra.amount
           ELSE body.amount * 10 = a.amount

\* C1 witness: 19.99 went out as 1999 in a call that also passed a non-empty extra.
C1_Witness ==
    /\ op = "create_payment"
    /\ requests # <<>>
    /\ args.amount = 19990
    /\ "extra" \in DOMAIN args
    /\ "description" \in DOMAIN args.extra
    /\ requests[1].body.amount = 1999

\* C2: a create_payment call with an empty or missing (None) return_url ends
\* with the InvalidArgument error (ValueError) and has issued no HTTP request,
\* whatever the other arguments and whether or not a session is open.
C2_MissingReturnUrlRejected ==
    (op = "create_payment" /\ args.return_url \in {None, ""})
    => /\ pc = "raised"
       /\ exc # <<>>
       /\ exc[1].type = "ValueError"
       /\ result = <<>>
       /\ requests = <<>>
       /\ response = <<>>

\* C2 witness: the rejection happened while a session was open.
C2_Witness ==
    /\ op = "create_payment"
    /\ args.return_url = ""
    /\ session # 0
    /\ sessions[session] = "open"
    /\ pc = "raised"
    /\ requests = <<>>

C4_AtMostOneRequestNoRetry ==
    /\ Len(requests) <= 1
    /\ (op \in {"create_payment", "get_payment", "create_refund", "get_refund",
                "create_autopayment"}
          /\ response # <<>>
          /\ (response[1].kind = "failure" \/ response[1].status >= 400))
       => /\ pc = "raised"
          /\ exc # <<>>
          /\ result = <<>>
          /\ Len(requests) = 1

\* C4 witness: create_autopayment's request met a transport failure.
C4_Witness ==
    /\ op = "create_autopayment"
    /\ response # <<>>
    /\ response[1].kind = "failure"
    /\ pc = "raised"
    /\ Len(requests) = 1

\* C5: create_refund(payment_id, amount, description) sends POST refunds with
\* the body {payment_uuid: payment_id, amount: amount, description: description},
\* the amount being the float the caller passed, where create_payment (without
\* an amount in extra) sends the amount in minor units.
C5_RefundAmountAsGiven ==
    /\ (op = "create_refund" /\ requests # <<>>)
       => requests = << [method |-> "POST",
                         url |-> <<PRODUCTION_URL, "refunds">>,
                         body |-> [payment_uuid |-> args.payment_uuid,
                                   amount |-> args.amount,
                                   description |-> args.description]] >>
    /\ (op = "create_payment" /\ requests # <<>> /\ "extra" \notin DOMAIN args
          /\ TwoDigits(args.amount))
       => requests[1].body.amount * 10 = args.amount

\* C5 witness: a refund of 19.99 went out as 19.99 (not as 1999).
C5_Witness ==
    /\ op = "create_refund"
    /\ requests # <<>>
    /\ args.amount = 19990
    /\ args.description = None
    /\ requests[1].body.amount = 19990

\* the create_payment arguments without extra
C6_WithoutExtra(a) == [k \in DOMAIN a \ {"extra"} |-> a[k]]

\* C6: in create_payment, extra is merged last: every key of extra has extra's
\* value in the outgoing body, and every other key of the body has the value
\* computed from the other arguments; the body has no further key.
C6_ExtraMergedLast ==
    (op \in {"create_payment", "create_autopayment"} /\ requests # <<>>
        /\ "extra" \in DOMAIN PaymentArgs)
    => LET a == PaymentArgs
           body == requests[1].body
           plain == PaymentData(C6_WithoutExtra(a))
       IN  /\ DOMAIN body = DOMAIN plain \cup DOMAIN a.extra
           /\ \A k \in DOMAIN a.extra : body[k] = a.extra[k]
           /\ \A k \in DOMAIN plain \ DOMAIN a.extra : body[k] = plain[k]

\* C6 witness: extra's amount replaced the computed amount, while the
\* description stayed the caller's.
C6_Witness ==
    /\ op = "create_payment"
    /\ requests # <<>>
    /\ "extra" \in DOMAIN args
    /\ "amount" \in DOMAIN args.extra
    /\ args.amount = 100000
    /\ requests[1].body.amount = 5
    /\ requests[1].body.description = "sub"

\* both email and items were supplied, non-empty
C7_Both(a) ==
    /\ a.email \notin {None, ""}
    /\ "items" \in DOMAIN a
    /\ a.items # <<>>

\* the receipt the claim describes
C7_ReceiptAsClaimed(a, body) ==
    /\ "receipt" \in DOMAIN body
    /\ DOMAIN body.receipt = {"customer", "items"}
    /\ body.receipt.customer = [email |-> a.email]
    /\ Len(body.receipt.items) = Len(a.items)
    /\ \A i \in 1..Len(a.items) :
          LET out == body.receipt.items[i]
              item == a.items[i]
          IN  /\ DOMAIN out = {"description", "amount", "vat_code", "quantity"}
              /\ out.description = item.description
              /\ out.vat_code = item.vat_code
              /\ out.quantity = item.quantity
              /\ out.amount * 10 = item.amount

\* C7 (as stated): with email but no items, or items but no (or an empty) email,
\* the outgoing body has no receipt key; with both, receipt holds the customer's
\* email and one entry per item, in order, amounts in minor units.
C7_Receipt_AnyExtra ==
    (op \in {"create_payment", "create_autopayment"} /\ requests # <<>>)
    => IF C7_Both(PaymentArgs)
       THEN C7_ReceiptAsClaimed(PaymentArgs, requests[1].body)
       ELSE "receipt" \notin DOMAIN requests[1].body

\* C7 (amended): the same, for calls whose extra has no "receipt" key; with
\* that key, the outgoing receipt is extra's value.
C7_Receipt ==
    (op \in {"create_payment", "create_autopayment"} /\ requests # <<>>)
    => LET a == PaymentArgs
           body == requests[1].body
       IN  IF "extra" \in DOMAIN a /\ "receipt" \in DOMAIN a.extra
           THEN "receipt" \in DOMAIN body /\ body.receipt = a.extra.receipt
           ELSE IF C7_Both(a)
                THEN C7_ReceiptAsClaimed(a, body)
                ELSE "receipt" \notin DOMAIN body

\* C7 witness: two items went out in order, 19.99 as 1999 and 100.0 as 10000.
C7_Witness ==
    /\ op = "create_payment"
    /\ requests # <<>>
    /\ "extra" \notin DOMAIN args
    /\ C7_Both(args)
    /\ Len(args.items) = 2
    /\ requests[1].body.receipt.items[1].amount = 1999
    /\ requests[1].body.receipt.items[2].amount = 10000

\* C7 witness of the other case: an email without items left no receipt.
C7_WitnessOmitted ==
    /\ op = "create_payment"
    /\ requests # <<>>
    /\ args.email = "a@b.c"
    /\ "items" \notin DOMAIN args
    /\ "receipt" \notin DOMAIN requests[1].body

\* C8: verify_webhook(payload, secret_key) returns true exactly when payload
\* has a secret_key entry equal to the secret_key argument (so false for every
\* payload without that entry, whatever the argument), and issues no request.
C8_WebhookTrueIffEntryEqual ==
    (op = "verify_webhook" /\ pc = "returned")
    => /\ result[1] <=> ("secret_key" \in DOMAIN args.data
                           /\ args.data.secret_key = args.secret_key)
       /\ requests = <<>>

\* the error-level records a layer has written
C9_ErrorRecords(layer) ==
    {i \in 1..Len(log) : log[i].level = "error" /\ log[i].layer = layer}

\* C9: an error that reaches the caller (InvalidArgument, HttpError or
\* TransportError) was logged at error level exactly once by the operation
\* that detected it, and exactly once more by create_autopayment when the call
\* went through it; the error raised is the one detected.
C9_ErrorLoggedOncePerLayer ==
    (pc = "raised"
        /\ ErrorKind(exc[1]) \in {"InvalidArgument", "HttpError", "TransportError"})
    => /\ Cardinality(C9_ErrorRecords(Layer)) = 1
       /\ op = "create_autopayment"
            => Cardinality(C9_ErrorRecords("create_autopayment")) = 1

\* C10: once every entered scope has exited, every session the client opened
\* is closed.
C10_AllSessionsClosedAfterExit ==
    depth = 0 => \A i \in 1..Len(sessions) : sessions[i] = "closed"

====
